---------------------------- MODULE Spec2Model ----------------------------
(***************************************************************************)
(* WAH-compressed bit vectors (package bitvec): the word codec, the        *)
(* mutable Bitvec (Set / Get), the pull iterators with their combinators,  *)
(* and the terminal consumers Count and Indices.                           *)
(*                                                                         *)
(* A Word is modelled bit for bit as the set of its set bit positions,     *)
(* 0 = least significant, bitLength-1 = the fill flag.  Masks are set      *)
(* operations, ++ and -- are binary increment and decrement modulo         *)
(* 2^bitLength, so a counter increment that is not guarded by hasSpace     *)
(* really carries into the ones flag.                                      *)
(*                                                                         *)
(* The word width is a compile-time constant of the package (64 in         *)
(* src/bitvec.go:298, 32 in the older variant at src/bitvec.go:21).  It is *)
(* held in the variable bitLength, fixed by Init and never changed, so     *)
(* that the exhaustive specifications run at a reduced width, where a run  *)
(* counter reaches fillMax, and the concrete scenario runs at width 64.    *)
(***************************************************************************)
EXTENDS Integers, Sequences, FiniteSets, TLC

VARIABLES
    bitLength,  \* bits per word (src/bitvec.go:298), constant along a behaviour
    size,       \* Bitvec.size    of the first Bitvec
    active,     \* Bitvec.active
    offset,     \* Bitvec.offset
    words,      \* Bitvec.words
    incd,       \* ghost: the words the last Set applied ++ to, as they were before
    arr,        \* ghost: the plain boolean array updated by the same Set calls
    b2,         \* the second Bitvec, a record of the same four fields
    arr2,       \* ghost: the plain boolean array of the second Bitvec
    res,        \* the last Count call and the value it returned
    prod,       \* the goroutine of Indices: its position and its locals
    closed,     \* whether the channel of Indices is closed
    recv,       \* what the consumer has received from the channel, in order
    cons,       \* the consumer of the channel: "receiving" or "stopped"
    run,        \* an iterator being pulled by hand: how it was built, as the
                \* Next calls left it, and the chunks they returned, in order
    ret         \* the last call of the Set that returns a bool: its outcome

(***************************************************************************)
(* Bounds of the model.                                                    *)
(***************************************************************************)
\* word width of the exhaustive specifications
SmallWidth == 4
\* largest position a Set call of Spec writes
MaxId == 14
\* integers of the model stay below 2^IntBits
IntBits == 30
\* largest position a Set call of SpecCount writes
MaxCountId == 6
\* largest position a Set call of SpecIdx writes
MaxIdxId == 9
\* largest position a Set call of SpecRet writes
MaxRetId == 9
\* largest position a Set call of SpecIter writes to the first Bitvec
MaxIterId == 7
\* largest position a Set call of SpecIter writes to the second Bitvec
MaxIter2Id == 2
\* largest position a Set call of SpecRace writes
MaxRaceId == 5
\* how many Set calls of SpecRace follow Iterate()
MaxRaceSets == 2
\* largest n of a ZeroIterator(n) of SpecZero
MaxZero == 20
\* how many Next calls are made on an iterator pulled by hand
MaxChunks == 6

(***************************************************************************)
(* Word arithmetic on bit sets.                                            *)
(***************************************************************************)
Min(a, b) == IF a < b THEN a ELSE b

Max(a, b) == IF a > b THEN a ELSE b

SetMin(S) == CHOOSE k \in S : \A m \in S : k <= m

SetMax(S) == CHOOSE k \in S : \A m \in S : k >= m

\* every bit of a Word
AllBits == 0 .. (bitLength - 1)

\* Word(0)
Zero == {}

\* 1 << k on a Word: bits shifted past the width are lost
Shl1(k) == IF k < bitLength THEN {k} ELSE {}

\* x & y, x | y, x ^ y, ^x
BitAnd(x, y) == x \cap y

BitOr(x, y) == x \cup y

BitXor(x, y) == (x \ y) \cup (y \ x)

BitNot(x) == AllBits \ x

\* x < y on unsigned words
WordLess(x, y) ==
    \E k \in y \ x : \A m \in AllBits : m > k => (m \in x <=> m \in y)

\* x + 1 modulo 2^bitLength
Inc(x) ==
    IF x = AllBits THEN {}
    ELSE LET k == SetMin(AllBits \ x)
         IN  (x \ (0 .. (k - 1))) \cup {k}

\* x - 1 modulo 2^bitLength
Dec(x) ==
    IF x = {} THEN AllBits
    ELSE LET k == SetMin(x)
         IN  (x \ {k}) \cup (0 .. (k - 1))

\* int(x), for words below 2^IntBits
RECURSIVE ToInt(_)
ToInt(x) ==
    IF x = {} THEN 0
    ELSE LET k == SetMax(x) IN 2 ^ k + ToInt(x \ {k})

\* Word(n), for 0 <= n < 2^IntBits
FromInt(n) ==
    {k \in AllBits : k < IntBits /\ (n \div (2 ^ k)) % 2 = 1}

(***************************************************************************)
(* The codec constants and predicates.                                     *)
(***************************************************************************)
fillFlag == Shl1(bitLength - 1)

onesFlag == Shl1(bitLength - 2)

\* Word((2 << (bitLength - 3)) - 1) = (1 << (bitLength - 2)) - 1: the low bitLength-2 bits
fillMax == Dec(Shl1(bitLength - 2))

countMask == BitNot(BitOr(fillFlag, onesFlag))

onesLiteral == BitNot(fillFlag)

zerosLiteral == Zero

isZerosFill(x) == BitAnd(x, BitNot(countMask)) = fillFlag

isOnesFill(x) == BitAnd(x, BitNot(countMask)) = BitNot(countMask)

\* hasSpace without the comparison with fillMax
hasSpaceAlways(x) == TRUE

hasSpace(x) == WordLess(BitAnd(x, countMask), fillMax)

(***************************************************************************)
(* Bitvec.  A Bitvec value is the record of its four fields plus the ghost *)
(* field incd.  Slice indices are the code's (from 0); words[k] of the     *)
(* code is b.words[k + 1] here.                                            *)
(***************************************************************************)
New == [size |-> 0, active |-> Zero, offset |-> 0, words |-> <<>>, incd |-> {}]

\* b.words[k]++ (k from 0), remembering the word incremented
IncWord(b, k) ==
    [b EXCEPT !.words[k + 1] = Inc(b.words[k + 1]),
              !.incd = b.incd \cup {b.words[k + 1]}]

flushWord(b) ==
    LET top == Len(b.words) - 1
        flushed ==
            IF b.active = zerosLiteral THEN
                IF top > -1 /\ isZerosFill(b.words[top + 1]) /\ hasSpace(b.words[top + 1])
                THEN IncWord(b, top)
                ELSE [b EXCEPT !.words = Append(b.words, fillFlag)]
            ELSE IF b.active = onesLiteral THEN
                IF top > -1 /\ isOnesFill(b.words[top + 1]) /\ hasSpace(b.words[top + 1])
                THEN IncWord(b, top)
                ELSE [b EXCEPT !.words = Append(b.words, BitOr(fillFlag, onesFlag))]
            ELSE [b EXCEPT !.words = Append(b.words, b.active)]
    IN  [flushed EXCEPT !.active = Zero, !.offset = 0]

\* append that flushes one bit late, at offset == bitLength
appendLateFlush(b, x) ==
    LET b1 == [b EXCEPT !.active = IF x THEN BitOr(b.active, Shl1(b.offset)) ELSE b.active,
                        !.offset = b.offset + 1,
                        !.size = b.size + 1]
    IN  IF b1.offset = bitLength THEN flushWord(b1) ELSE b1

append(b, x) ==
    LET b1 == [b EXCEPT !.active = IF x THEN BitOr(b.active, Shl1(b.offset)) ELSE b.active,
                        !.offset = b.offset + 1,
                        !.size = b.size + 1]
    IN  IF b1.offset = bitLength - 1 THEN flushWord(b1) ELSE b1

\* the loop for i := 0; i < words; i++ { b.flushWord() }
RECURSIVE flushTimes(_, _)
flushTimes(b, n) == IF n <= 0 THEN b ELSE flushTimes(flushWord(b), n - 1)

\* the scan of findWord counting every word, fill or literal, as one
RECURSIVE findLoopFlat(_, _, _, _)
findLoopFlat(b, index, i, j) ==
    IF i < Len(b.words) THEN
        LET nextj == j + 1
        IN  IF nextj > index THEN <<i, j, TRUE>>
            ELSE findLoopFlat(b, index, i + 1, nextj)
    ELSE <<i, j, FALSE>>

\* the scan of findWord from (i, j); the result is <<i, j, returned inside the loop>>
RECURSIVE findLoop(_, _, _, _)
findLoop(b, index, i, j) ==
    IF i < Len(b.words) THEN
        LET w == b.words[i + 1]
            nextj == j + 1 + (IF BitAnd(w, fillFlag) # Zero
                              THEN ToInt(BitAnd(w, countMask)) ELSE 0)
        IN  IF nextj > index THEN <<i, j, TRUE>>
            ELSE findLoop(b, index, i + 1, nextj)
    ELSE <<i, j, FALSE>>

findWord(b, id) ==
    LET index == id \div (bitLength - 1)
        off == id % (bitLength - 1)
        r == findLoop(b, index, 0, 0)
        i == IF ~r[3] /\ r[2] + 1 < index THEN r[1] + 1 ELSE r[1]
    IN  [index |-> index, offset |-> off, i |-> i, j |-> r[2]]

\* copy(ws[d:], ws[s:]) within one slice
CopyWithin(ws, d, s) ==
    LET n == Len(ws)
        cnt == Min(n - d, n - s)
    IN  [k \in 1 .. n |->
            IF k - 1 >= d /\ k - 1 - d < cnt THEN ws[s + (k - 1 - d) + 1] ELSE ws[k]]

\* updateFill that gives the fill after the literal the counter size - target
updateFillLongTail(b, i0, target, off, x) ==
    LET head == BitAnd(b.words[i0 + 1], BitOr(fillFlag, onesFlag))
        sz == BitAnd(b.words[i0 + 1], countMask)
        w1 == IF target # Zero
              THEN CopyWithin(Append([b.words EXCEPT ![i0 + 1] = BitOr(head, Dec(target))],
                                     Zero), i0 + 2, i0 + 1)
              ELSE b.words
        i1 == IF target # Zero THEN i0 + 1 ELSE i0
        w2 == [w1 EXCEPT ![i1 + 1] = IF x THEN Shl1(off)
                                     ELSE BitXor(BitNot(fillFlag), Shl1(off))]
        w3 == IF WordLess(target, sz)
              THEN [CopyWithin(Append(w2, Zero), i1 + 2, i1 + 1)
                       EXCEPT ![i1 + 2] = BitOr(head, FromInt(ToInt(sz) - ToInt(target)))]
              ELSE w2
    IN  [b EXCEPT !.words = w3]

updateFill(b, i0, target, off, x) ==
    LET head == BitAnd(b.words[i0 + 1], BitOr(fillFlag, onesFlag))
        sz == BitAnd(b.words[i0 + 1], countMask)
        \* if target > 0: a fill before the literal
        w1 == IF target # Zero
              THEN CopyWithin(Append([b.words EXCEPT ![i0 + 1] = BitOr(head, Dec(target))],
                                     Zero), i0 + 2, i0 + 1)
              ELSE b.words
        i1 == IF target # Zero THEN i0 + 1 ELSE i0
        \* the literal
        w2 == [w1 EXCEPT ![i1 + 1] = IF x THEN Shl1(off)
                                     ELSE BitXor(BitNot(fillFlag), Shl1(off))]
        \* if size > target: a fill after the literal
        w3 == IF WordLess(target, sz)
              THEN [CopyWithin(Append(w2, Zero), i1 + 2, i1 + 1)
                       EXCEPT ![i1 + 2] = BitOr(head, FromInt(ToInt(sz) - ToInt(target) - 1))]
              ELSE w2
    IN  [b EXCEPT !.words = w3]

\* mergeIntoPrevious without the removal of the literal's slot
mergeKeepSlot(b, i) ==
    [IncWord(b, i - 1) EXCEPT !.words[i + 1] =
        IF b.words[i + 1] = zerosLiteral THEN fillFlag ELSE BitOr(fillFlag, onesFlag)]

\* the merge of a literal that became all ones or all zeros into the fill before it
mergeIntoPrevious(b, i) ==
    LET b1 == IncWord(b, i - 1)
        n == Len(b1.words) - 1
        w1 == CopyWithin(b1.words, i, i + 1)
        w2 == [w1 EXCEPT ![n + 1] = Zero]
    IN  [b1 EXCEPT !.words = SubSeq(w2, 1, n)]

\* updateLiteral without the conversion of an all-zero or all-one literal
updateLiteralPlain(b, i, off, x) ==
    IF x THEN [b EXCEPT !.words[i + 1] = BitOr(b.words[i + 1], Shl1(off))]
    ELSE [b EXCEPT !.words[i + 1] = BitAnd(b.words[i + 1], BitNot(Shl1(off)))]

updateLiteral(b, i, off, x) ==
    IF x THEN
        LET b1 == [b EXCEPT !.words[i + 1] = BitOr(b.words[i + 1], Shl1(off))]
        IN  IF b1.words[i + 1] = onesLiteral THEN
                IF i > 0 /\ isOnesFill(b1.words[i]) /\ hasSpace(b1.words[i])
                THEN mergeIntoPrevious(b1, i)
                ELSE [b1 EXCEPT !.words[i + 1] = BitOr(fillFlag, onesFlag)]
            ELSE b1
    ELSE
        LET b1 == [b EXCEPT !.words[i + 1] = BitAnd(b.words[i + 1], BitNot(Shl1(off)))]
        IN  IF b1.words[i + 1] = zerosLiteral THEN
                IF i > 0 /\ isZerosFill(b1.words[i]) /\ hasSpace(b1.words[i])
                THEN mergeIntoPrevious(b1, i)
                ELSE [b1 EXCEPT !.words[i + 1] = fillFlag]
            ELSE b1

\* update that breaks a fill without comparing x with its polarity
updateBreaksAnyFill(b, id, x) ==
    LET f == findWord(b, id)
        i == f.i
    IN  IF i = Len(b.words) THEN
            [b EXCEPT !.active = IF x THEN BitOr(b.active, Shl1(f.offset))
                                 ELSE BitAnd(b.active, BitNot(Shl1(f.offset)))]
        ELSE IF BitAnd(b.words[i + 1], fillFlag) # Zero THEN
            updateFill(b, i, FromInt(f.index - f.j), f.offset, x)
        ELSE updateLiteral(b, i, f.offset, x)

update(b, id, x) ==
    LET f == findWord(b, id)
        i == f.i
    IN  IF i = Len(b.words) THEN
            [b EXCEPT !.active = IF x THEN BitOr(b.active, Shl1(f.offset))
                                 ELSE BitAnd(b.active, BitNot(Shl1(f.offset)))]
        ELSE IF BitAnd(b.words[i + 1], fillFlag) # Zero THEN
            IF (x /\ BitAnd(b.words[i + 1], onesFlag) = Zero)
               \/ ~(x \/ BitAnd(b.words[i + 1], onesFlag) = Zero)
            THEN updateFill(b, i, FromInt(f.index - f.j), f.offset, x)
            ELSE b
        ELSE updateLiteral(b, i, f.offset, x)

\* Set whose gap extension counts from the start of the active word,
\* offset := id - b.size
SetBitFromWordStart(b, id, x) ==
    LET b1 == IF id > b.size THEN
                  LET off == id - b.size
                      nw == off \div (bitLength - 1)
                  IN  [flushTimes(b, nw) EXCEPT !.offset = off % (bitLength - 1),
                                                !.size = id]
              ELSE b
    IN  IF id = b1.size THEN append(b1, x) ELSE update(b1, id, x)

\* Bitvec.Set, for id >= 0
SetBit(b, id, x) ==
    LET b1 == IF id > b.size THEN
                  LET off == b.offset + id - b.size
                      nw == off \div (bitLength - 1)
                  IN  [flushTimes(b, nw) EXCEPT !.offset = off % (bitLength - 1),
                                                !.size = id]
              ELSE b
    IN  IF id = b1.size THEN append(b1, x) ELSE update(b1, id, x)

(***************************************************************************)
(* The Set of the older variant (src/bitvec.go:89-100), which grows the    *)
(* vector one bit at a time.                                               *)
(***************************************************************************)
\* for id > b.size { b.append(false) }
RECURSIVE growLoop(_, _)
growLoop(b, id) == IF id > b.size THEN growLoop(append(b, FALSE), id) ELSE b

SetOneByOne(b, id, x) ==
    LET b1 == growLoop(b, id)
    IN  IF id = b1.size THEN append(b1, x) ELSE update(b1, id, x)

(***************************************************************************)
(* The Set that returns a bool (src/bitvec.go:617-720, and 89-196 at width *)
(* 32).  It changes the Bitvec as the Set above does; what it returns is   *)
(* computed here from the Bitvec before the call.  A Go index expression   *)
(* past the length of the slice panics: the outcome "index out of range".  *)
(***************************************************************************)
BoolOutcome(v) == IF v THEN "true" ELSE "false"

\* old := b.words[i]; ...; return b.words[i] != old
updateLiteralReturn(b, i, off, x) ==
    LET nb == updateLiteral(b, i, off, x)
    IN  IF i >= Len(nb.words) THEN "index out of range"
        ELSE BoolOutcome(nb.words[i + 1] # b.words[i + 1])

updateReturn(b, id, x) ==
    LET f == findWord(b, id)
        i == f.i
    IN  IF i = Len(b.words) THEN BoolOutcome(b.active # update(b, id, x).active)
        ELSE IF BitAnd(b.words[i + 1], fillFlag) # Zero THEN
            BoolOutcome((x /\ BitAnd(b.words[i + 1], onesFlag) = Zero)
                        \/ ~(x \/ BitAnd(b.words[i + 1], onesFlag) = Zero))
        ELSE updateLiteralReturn(b, i, f.offset, x)

SetReturn(b, id, x) ==
    IF id >= b.size THEN BoolOutcome(x) ELSE updateReturn(b, id, x)

\* Bitvec.Get, for 0 <= id < b.size or beyond
Get(b, id) ==
    LET f == findWord(b, id)
        i == f.i
    IN  IF i = Len(b.words) THEN BitAnd(b.active, Shl1(f.offset)) # Zero
        ELSE IF i > Len(b.words) THEN FALSE
        ELSE IF BitAnd(b.words[i + 1], fillFlag) # Zero
             THEN BitAnd(b.words[i + 1], onesFlag) # Zero
        ELSE BitAnd(b.words[i + 1], Shl1(f.offset)) # Zero

(***************************************************************************)
(* Iterators.  An iterator is a record; a Bitvec iterator holds a          *)
(* reference to its Bitvec (1 = the first, 2 = the second), not a copy,    *)
(* and Next reads the Bitvec as it is at the time of the call.  Next       *)
(* returns the chunk (w, n) together with the iterator as the call left    *)
(* it.                                                                     *)
(***************************************************************************)
\* the Bitvec held in the variables
B == [size |-> size, active |-> active, offset |-> offset, words |-> words,
      incd |-> incd]

Deref(ref) == IF ref = 1 THEN B ELSE b2

Iterate(ref) == [kind |-> "bitvec", b |-> ref, index |-> 0, count |-> 0, fill |-> Zero]

EmptyIterator == [kind |-> "empty"]

ZeroIterator(n) == [kind |-> "zero", n |-> n]

\* zeroIterator.Next.  The method has a value receiver (func (itr
\* zeroIterator) Next()): it runs on a copy of the iterator, so its
\* assignments to itr.n are lost when it returns and the iterator the caller
\* holds is left as it was.
zeroNext(itr) ==
    [itr |-> itr,
     w |-> Zero,
     n |-> IF itr.n >= bitLength - 1 THEN bitLength - 1 ELSE itr.n]

Not(x) == [kind |-> "not", x |-> x]

And(x, y) == [kind |-> "and", x |-> x, y |-> y]

Or(x, y) == [kind |-> "or", x |-> x, y |-> y]

Xor(x, y) == [kind |-> "xor", x |-> x, y |-> y]

\* bitvecIterator.Next that takes a fill for one chunk, whatever its counter
bitvecNextOnce(itr) ==
    LET b == Deref(itr.b)
    IN  IF itr.index < Len(b.words) THEN
            LET w == b.words[itr.index + 1]
            IN  IF BitAnd(w, fillFlag) = Zero
                THEN [itr |-> [itr EXCEPT !.index = @ + 1], w |-> w, n |-> bitLength - 1]
                ELSE [itr |-> [itr EXCEPT !.index = @ + 1],
                      w |-> IF BitAnd(w, onesFlag) = Zero THEN Zero ELSE BitNot(fillFlag),
                      n |-> bitLength - 1]
        ELSE IF itr.index = Len(b.words) THEN
            [itr |-> [itr EXCEPT !.index = @ + 1], w |-> b.active, n |-> b.offset]
        ELSE [itr |-> itr, w |-> Zero, n |-> 0]

\* bitvecIterator.Next that ends at the last committed word and never returns
\* the active word
bitvecNextNoTail(itr) ==
    LET b == Deref(itr.b)
    IN  IF itr.count > 0 THEN
            [itr |-> [itr EXCEPT !.count = @ - 1], w |-> itr.fill, n |-> bitLength - 1]
        ELSE IF itr.index < Len(b.words) THEN
            LET w == b.words[itr.index + 1]
                fill == IF BitAnd(w, onesFlag) = Zero THEN Zero ELSE BitNot(fillFlag)
            IN  IF BitAnd(w, fillFlag) = Zero
                THEN [itr |-> [itr EXCEPT !.index = @ + 1], w |-> w, n |-> bitLength - 1]
                ELSE [itr |-> [itr EXCEPT !.index = @ + 1,
                                          !.count = ToInt(BitAnd(w, countMask)),
                                          !.fill = fill],
                      w |-> fill, n |-> bitLength - 1]
        ELSE [itr |-> itr, w |-> Zero, n |-> 0]

\* bitvecIterator.Next of an iterator that starts over once it is past the
\* active word
bitvecNextRestart(itr) ==
    LET b == Deref(itr.b)
    IN  IF itr.count > 0 THEN
            [itr |-> [itr EXCEPT !.count = @ - 1], w |-> itr.fill, n |-> bitLength - 1]
        ELSE IF itr.index < Len(b.words) THEN
            LET w == b.words[itr.index + 1]
                fill == IF BitAnd(w, onesFlag) = Zero THEN Zero ELSE BitNot(fillFlag)
            IN  IF BitAnd(w, fillFlag) = Zero
                THEN [itr |-> [itr EXCEPT !.index = @ + 1], w |-> w, n |-> bitLength - 1]
                ELSE [itr |-> [itr EXCEPT !.index = @ + 1,
                                          !.count = ToInt(BitAnd(w, countMask)),
                                          !.fill = fill],
                      w |-> fill, n |-> bitLength - 1]
        ELSE IF itr.index = Len(b.words) THEN
            [itr |-> [itr EXCEPT !.index = @ + 1], w |-> b.active, n |-> b.offset]
        ELSE [itr |-> [itr EXCEPT !.index = 0], w |-> Zero, n |-> 0]

bitvecNext(itr) ==
    LET b == Deref(itr.b)
    IN  IF itr.count > 0 THEN
            [itr |-> [itr EXCEPT !.count = @ - 1], w |-> itr.fill, n |-> bitLength - 1]
        ELSE IF itr.index < Len(b.words) THEN
            LET w == b.words[itr.index + 1]
                fill == IF BitAnd(w, onesFlag) = Zero THEN Zero ELSE BitNot(fillFlag)
            IN  IF BitAnd(w, fillFlag) = Zero
                THEN [itr |-> [itr EXCEPT !.index = @ + 1], w |-> w, n |-> bitLength - 1]
                ELSE [itr |-> [itr EXCEPT !.index = @ + 1,
                                          !.count = ToInt(BitAnd(w, countMask)),
                                          !.fill = fill],
                      w |-> fill, n |-> bitLength - 1]
        ELSE IF itr.index = Len(b.words) THEN
            [itr |-> [itr EXCEPT !.index = @ + 1], w |-> b.active, n |-> b.offset]
        ELSE [itr |-> itr, w |-> Zero, n |-> 0]

\* the words of andIterator.Next, orIterator.Next and xorIterator.Next
andWord(wx, wy) == BitAnd(wx, wy)

orWord(wx, wy) == BitOr(wx, wy)

\* xorIterator.Next with | written for ^
xorWordAsOr(wx, wy) == BitOr(wx, wy)

xorWord(wx, wy) == BitXor(wx, wy)

\* the complement taken under countMask instead of ^fillFlag
notWordCountMask(w) == BitAnd(BitNot(w), countMask)

\* the word of notIterator.Next
notWord(w) == BitXor(BitNot(fillFlag), w)

RECURSIVE Next(_)
Next(itr) ==
    IF itr.kind = "bitvec" THEN bitvecNext(itr)
    ELSE IF itr.kind = "empty" THEN [itr |-> itr, w |-> Zero, n |-> 0]
    ELSE IF itr.kind = "zero" THEN zeroNext(itr)
    ELSE IF itr.kind = "not" THEN
        LET r == Next(itr.x)
        IN  [itr |-> [itr EXCEPT !.x = r.itr], w |-> notWord(r.w), n |-> r.n]
    ELSE
        LET rx == Next(itr.x)
            ry == Next(itr.y)
            nit == [itr EXCEPT !.x = rx.itr, !.y = ry.itr]
        IN  IF itr.kind = "and"
            THEN [itr |-> nit, w |-> andWord(rx.w, ry.w), n |-> Min(rx.n, ry.n)]
            ELSE IF itr.kind = "or"
            THEN [itr |-> nit, w |-> orWord(rx.w, ry.w), n |-> Max(rx.n, ry.n)]
            ELSE [itr |-> nit, w |-> xorWord(rx.w, ry.w), n |-> Max(rx.n, ry.n)]

\* x >> s on a Word
Shr(x, s) == {k - s : k \in {m \in x : m >= s}}

\* bits.OnesCount(uint(w)), uint being no narrower than Word
OnesCount(w) == Cardinality(w)

\* Count without the mask on a partial chunk
countedWordUnmasked(w, n) == w

\* the word Count counts of a chunk (w, n): masked to n bits when n < bitLength-1
countedWord(w, n) ==
    IF n < bitLength - 1 THEN BitAnd(w, Shr(BitNot(Zero), bitLength - n)) ELSE w

\* the loop of Count from the iterator itr with count bits counted so far
RECURSIVE countLoop(_, _)
countLoop(itr, count) ==
    LET r == Next(itr)
    IN  IF r.n = 0 THEN count
        ELSE countLoop(r.itr, count + OnesCount(countedWord(r.w, r.n)))

Count(itr) == countLoop(itr, 0)

(***************************************************************************)
(* The plain boolean array the Bitvec is compared with: a[id] = x, the     *)
(* array grown with false up to id first.                                  *)
(***************************************************************************)
ArrSet(a, id, x) ==
    [k \in 1 .. Max(Len(a), id + 1) |->
        IF k = id + 1 THEN x ELSE IF k <= Len(a) THEN a[k] ELSE FALSE]

(***************************************************************************)
(* Indices: the goroutine.  prod.pc is its position: "idle" before Indices *)
(* is called, "next" at itr.Next(), "loop" at the test i < n, "send" at    *)
(* ch <- id + i, "close" at close(ch), "done" after it.  The channel is    *)
(* unbuffered: a send completes together with the consumer's receive.      *)
(***************************************************************************)
Idle == [pc |-> "idle", itr |-> Iterate(1), id |-> 0, w |-> Zero, n |-> 0, i |-> 0]

\* id += bitLength, one more than a chunk holds
chunkBaseFull(id) == id + bitLength

\* id += bitLength - 1
chunkBase(id) == id + bitLength - 1

NoResult == [op |-> "none", count |-> 0]

\* no iterator is being pulled by hand
NoRun == [on |-> FALSE, shape |-> EmptyIterator, itr |-> EmptyIterator, out |-> <<>>,
          dirty |-> FALSE, sets |-> 0, arr0 |-> <<>>]

\* no call of the Set that returns a bool yet
NoRet == [val |-> "none", changed |-> FALSE]

(***************************************************************************)
(* The initial state: two new Bitvecs, no Count taken, Indices not called. *)
(***************************************************************************)
\* bitLength of src/bitvec.go
WideWidth == 64

InitAt(width) ==
    /\ bitLength = width
    /\ size = 0
    /\ active = Zero
    /\ offset = 0
    /\ words = <<>>
    /\ incd = {}
    /\ arr = <<>>
    /\ b2 = New
    /\ arr2 = <<>>
    /\ res = NoResult
    /\ prod = Idle
    /\ closed = FALSE
    /\ recv = <<>>
    /\ cons = "receiving"
    /\ run = NoRun
    /\ ret = NoRet

Init == InitAt(SmallWidth)

InitWide == InitAt(WideWidth)

vars == <<bitLength, size, active, offset, words, incd, arr, b2, arr2, res, prod,
          closed, recv, cons, run, ret>>

(***************************************************************************)
(* The operations.                                                         *)
(***************************************************************************)
\* b.Set(id, x) on the first Bitvec
Set(id, x) ==
    \E nb \in {SetBit([B EXCEPT !.incd = {}], id, x)} :
        /\ size' = nb.size
        /\ active' = nb.active
        /\ offset' = nb.offset
        /\ words' = nb.words
        /\ incd' = nb.incd
        /\ arr' = ArrSet(arr, id, x)
        /\ UNCHANGED <<bitLength, b2, arr2, res, prod, closed, recv, cons, run, ret>>

\* changed := b.Set(id, x) on the first Bitvec, in the variant that returns a
\* bool; a panic ends the program
SetReturning(id, x) ==
    /\ ret.val # "index out of range"
    /\ \E nb \in {SetBit([B EXCEPT !.incd = {}], id, x)} :
        /\ size' = nb.size
        /\ active' = nb.active
        /\ offset' = nb.offset
        /\ words' = nb.words
        /\ incd' = nb.incd
        /\ arr' = ArrSet(arr, id, x)
        /\ ret' = [val |-> SetReturn(B, id, x),
                   changed |-> Get(nb, id) # (id < size /\ Get(B, id))]
        /\ UNCHANGED <<bitLength, b2, arr2, res, prod, closed, recv, cons, run>>

\* b.Set(id, x) on the second Bitvec
Set2(id, x) ==
    /\ b2' = [SetBit(b2, id, x) EXCEPT !.incd = {}]
    /\ arr2' = ArrSet(arr2, id, x)
    /\ UNCHANGED <<bitLength, size, active, offset, words, incd, arr, res, prod,
                   closed, recv, cons, run, ret>>

\* the iterator a Count call of the tests is given
CountArg(op) ==
    IF op = "and" THEN And(Iterate(1), Iterate(2))
    ELSE IF op = "or" THEN Or(Iterate(1), Iterate(2))
    ELSE IF op = "xor" THEN Xor(Iterate(1), Iterate(2))
    ELSE IF op = "not" THEN Not(Iterate(1))
    ELSE Iterate(1)

\* Count(...) on fresh iterators over the Bitvecs, once they are built
CallCount(op) ==
    /\ res = NoResult
    /\ prod.pc = "idle"
    /\ res' = [op |-> op, count |-> Count(CountArg(op))]
    /\ UNCHANGED <<bitLength, size, active, offset, words, incd, arr, b2, arr2, prod,
                   closed, recv, cons, run, ret>>

\* Indices(b.Iterate()): make the channel, start the goroutine
StartIndices ==
    /\ prod.pc = "idle"
    /\ prod' = [prod EXCEPT !.pc = "next", !.itr = Iterate(1), !.id = 0]
    /\ UNCHANGED <<bitLength, size, active, offset, words, incd, arr, b2, arr2, res,
                   closed, recv, cons, run, ret>>

\* w, n := itr.Next(); if n == 0 { break }
ProducerNext ==
    /\ prod.pc = "next"
    /\ \E r \in {Next(prod.itr)} :
          prod' = [prod EXCEPT !.itr = r.itr, !.w = r.w, !.n = r.n, !.i = 0,
                               !.pc = IF r.n = 0 THEN "close" ELSE "loop"]
    /\ UNCHANGED <<bitLength, size, active, offset, words, incd, arr, b2, arr2, res,
                   closed, recv, cons, run, ret>>

\* the loop for i := 0; i < n-1; i++, one turn short of the chunk
ProducerLoopShort ==
    /\ prod.pc = "loop"
    /\ prod' = IF prod.i < prod.n - 1
               THEN IF BitAnd(prod.w, Shl1(prod.i)) # Zero
                    THEN [prod EXCEPT !.pc = "send"]
                    ELSE [prod EXCEPT !.i = @ + 1]
               ELSE [prod EXCEPT !.id = chunkBase(prod.id), !.pc = "next"]
    /\ UNCHANGED <<bitLength, size, active, offset, words, incd, arr, b2, arr2, res,
                   closed, recv, cons, run, ret>>

\* one turn of for i := 0; i < n; i++, up to the send; after the loop, id += bitLength - 1
ProducerLoop ==
    /\ prod.pc = "loop"
    /\ prod' = IF prod.i < prod.n
               THEN IF BitAnd(prod.w, Shl1(prod.i)) # Zero
                    THEN [prod EXCEPT !.pc = "send"]
                    ELSE [prod EXCEPT !.i = @ + 1]
               ELSE [prod EXCEPT !.id = chunkBase(prod.id), !.pc = "next"]
    /\ UNCHANGED <<bitLength, size, active, offset, words, incd, arr, b2, arr2, res,
                   closed, recv, cons, run, ret>>

\* ch <- id + i completing with no receiver, as on a buffered channel
SendRecvBuffered ==
    /\ prod.pc = "send"
    /\ ~closed
    /\ recv' = IF cons = "receiving" THEN Append(recv, prod.id + prod.i) ELSE recv
    /\ prod' = [prod EXCEPT !.i = @ + 1, !.pc = "loop"]
    /\ UNCHANGED <<bitLength, size, active, offset, words, incd, arr, b2, arr2, res,
                   closed, cons, run, ret>>

\* ch <- id + i, met by the consumer's <-ch
SendRecv ==
    /\ prod.pc = "send"
    /\ ~closed
    /\ cons = "receiving"
    /\ recv' = Append(recv, prod.id + prod.i)
    /\ prod' = [prod EXCEPT !.i = @ + 1, !.pc = "loop"]
    /\ UNCHANGED <<bitLength, size, active, offset, words, incd, arr, b2, arr2, res,
                   closed, cons, run, ret>>

\* the consumer of the channel stops receiving
ConsumerStop ==
    /\ prod.pc # "idle"
    /\ cons = "receiving"
    /\ cons' = "stopped"
    /\ UNCHANGED <<bitLength, size, active, offset, words, incd, arr, b2, arr2, res,
                   prod, closed, recv, run, ret>>

\* close(ch)
ProducerClose ==
    /\ prod.pc = "close"
    /\ closed' = TRUE
    /\ prod' = [prod EXCEPT !.pc = "done"]
    /\ UNCHANGED <<bitLength, size, active, offset, words, incd, arr, b2, arr2, res,
                   recv, cons, run, ret>>

(***************************************************************************)
(* Spec: one Bitvec, every Set(id, x) with 0 <= id <= MaxId in any order,  *)
(* at the reduced width.                                                   *)
(***************************************************************************)
NextSet == \E id \in 0 .. MaxId, x \in BOOLEAN : Set(id, x)

Spec == Init /\ [][NextSet]_vars

(***************************************************************************)
(* SpecCount: two Bitvecs built from boolean arrays as the tests build     *)
(* them, by Set calls at ascending positions (every position, or some      *)
(* left to zero-extension), then one Count over iterators of the two.      *)
(***************************************************************************)
BuildSet1(id, x) == res = NoResult /\ id >= size /\ Set(id, x)

BuildSet2(id, x) == res = NoResult /\ id >= b2.size /\ Set2(id, x)

NextCount ==
    \/ \E id \in 0 .. MaxCountId, x \in BOOLEAN : BuildSet1(id, x)
    \/ \E id \in 0 .. MaxCountId, x \in BOOLEAN : BuildSet2(id, x)
    \/ \E op \in {"and", "or", "xor", "not"} : CallCount(op)

SpecCount == Init /\ [][NextCount]_vars

(***************************************************************************)
(* SpecIdx and SpecWide: one Bitvec built by Set(id, true) at ascending    *)
(* positions, then Count(b.Iterate()) and Indices(b.Iterate()) with a      *)
(* consumer that receives until the channel is closed.  SpecIdx runs at    *)
(* the reduced width over the positions 0 .. MaxIdxId, SpecWide at width   *)
(* 64 over the positions of ScenarioIds.                                   *)
(***************************************************************************)
ScenarioIds == {0, 62, 63, 500, 1000}

IdxIds == IF bitLength = WideWidth THEN ScenarioIds ELSE 0 .. MaxIdxId

BuildTrue(id) == res = NoResult /\ prod.pc = "idle" /\ id >= size /\ Set(id, TRUE)

NextIdx ==
    \/ \E id \in IdxIds : BuildTrue(id)
    \/ CallCount("iterate")
    \/ StartIndices
    \/ ProducerNext
    \/ ProducerLoop
    \/ SendRecv
    \/ ProducerClose

SpecIdx == Init /\ [][NextIdx]_vars

SpecWide == InitWide /\ [][NextIdx]_vars

(***************************************************************************)
(* SpecIdxFair: SpecIdx with the scheduling the Go runtime gives the       *)
(* goroutine and a consumer that keeps receiving: a step of the goroutine  *)
(* that stays possible is taken, and so is the rendezvous on the channel.  *)
(***************************************************************************)
SpecIdxFair ==
    /\ Init
    /\ [][NextIdx]_vars
    /\ WF_vars(ProducerNext)
    /\ WF_vars(ProducerLoop)
    /\ WF_vars(SendRecv)
    /\ WF_vars(ProducerClose)

(***************************************************************************)
(* SpecStop: SpecIdx with a consumer that may stop receiving at any time   *)
(* after Indices was called.  The goroutine is scheduled fairly; nothing   *)
(* is assumed of the consumer.                                             *)
(***************************************************************************)
NextStop == NextIdx \/ ConsumerStop

SpecStop ==
    /\ Init
    /\ [][NextStop]_vars
    /\ WF_vars(ProducerNext)
    /\ WF_vars(ProducerLoop)
    /\ WF_vars(ProducerClose)

(***************************************************************************)
(* SpecRet: one Bitvec of the variant whose Set returns a bool, every      *)
(* Set(id, x) with 0 <= id <= MaxRetId in any order.                       *)
(***************************************************************************)
NextRet == \E id \in 0 .. MaxRetId, x \in BOOLEAN : SetReturning(id, x)

SpecRet == Init /\ [][NextRet]_vars

(***************************************************************************)
(* SpecIter: two Bitvecs built by Set calls in any order, then one         *)
(* iterator built from Iterate(), EmptyIterator() and the combinators,     *)
(* and pulled by hand: MaxChunks calls of Next, no Set in between.         *)
(***************************************************************************)
Shapes ==
    {Iterate(1), EmptyIterator, Not(Iterate(1)), Not(Not(Iterate(1))),
     And(Iterate(1), Iterate(2)), Or(Iterate(1), Iterate(2)),
     Xor(Iterate(1), Iterate(2)), Or(Iterate(2), Iterate(1)),
     Or(Not(Iterate(1)), Iterate(2)), Xor(Iterate(1), Not(Iterate(2))),
     And(Not(Iterate(2)), Iterate(1)), Or(And(Iterate(1), Iterate(2)), EmptyIterator),
     Not(Xor(Iterate(1), Iterate(2)))}

IterSet1(id, x) == ~run.on /\ Set(id, x)

IterSet2(id, x) == ~run.on /\ Set2(id, x)

\* itr := <shape>, e.g. itr := Or(Not(a.Iterate()), b.Iterate())
StartIter(shape) ==
    /\ ~run.on
    /\ run' = [NoRun EXCEPT !.on = TRUE, !.shape = shape, !.itr = shape, !.arr0 = arr]
    /\ UNCHANGED <<bitLength, size, active, offset, words, incd, arr, b2, arr2, res,
                   prod, closed, recv, cons, ret>>

\* w, n := itr.Next()
CallNext ==
    /\ run.on
    /\ Len(run.out) < MaxChunks
    /\ \E r \in {Next(run.itr)} :
          run' = [run EXCEPT !.itr = r.itr, !.out = Append(@, [w |-> r.w, n |-> r.n])]
    /\ UNCHANGED <<bitLength, size, active, offset, words, incd, arr, b2, arr2, res,
                   prod, closed, recv, cons, ret>>

NextIter ==
    \/ \E id \in 0 .. MaxIterId, x \in BOOLEAN : IterSet1(id, x)
    \/ \E id \in 0 .. MaxIter2Id, x \in BOOLEAN : IterSet2(id, x)
    \/ \E shape \in Shapes : StartIter(shape)
    \/ CallNext

SpecIter == Init /\ [][NextIter]_vars

(***************************************************************************)
(* SpecZero: ZeroIterator(n) for 0 <= n <= MaxZero, pulled by hand:        *)
(* MaxChunks calls of Next.                                                *)
(***************************************************************************)
NextZero ==
    \/ \E n \in 0 .. MaxZero : StartIter(ZeroIterator(n))
    \/ CallNext

SpecZero == Init /\ [][NextZero]_vars

(***************************************************************************)
(* SpecRace: one Bitvec, one iterator from b.Iterate() pulled by hand, and *)
(* Set calls on b before Iterate() and, up to MaxRaceSets of them, between *)
(* the Next calls, in any order.  Set and Next are calls of one goroutine: *)
(* each runs to its end.                                                   *)
(***************************************************************************)
\* b.Set(id, x); an iterator over b that is live has seen a Set since Iterate()
RaceSet(id, x) ==
    /\ run.sets < MaxRaceSets
    /\ \E nb \in {SetBit([B EXCEPT !.incd = {}], id, x)} :
        /\ size' = nb.size
        /\ active' = nb.active
        /\ offset' = nb.offset
        /\ words' = nb.words
        /\ incd' = nb.incd
        /\ arr' = ArrSet(arr, id, x)
        /\ run' = [run EXCEPT !.dirty = run.on, !.sets = IF run.on THEN @ + 1 ELSE @]
        /\ UNCHANGED <<bitLength, b2, arr2, res, prod, closed, recv, cons, ret>>

NextRace ==
    \/ \E id \in 0 .. MaxRaceId, x \in BOOLEAN : RaceSet(id, x)
    \/ StartIter(Iterate(1))
    \/ CallNext

SpecRace == Init /\ [][NextRace]_vars

(***************************************************************************)
(* Vocabulary of the properties.                                           *)
(***************************************************************************)
IsFill(w) == BitAnd(w, fillFlag) # Zero

IsLiteral(w) == BitAnd(w, fillFlag) = Zero

\* the polarity of a fill: TRUE for a run of ones
Polarity(w) == BitAnd(w, onesFlag) # Zero

\* the run counter of a fill
Counter(w) == ToInt(BitAnd(w, countMask))

\* the head bits of a word: fill flag and ones flag
HeadBits(w) == BitAnd(w, BitOr(fillFlag, onesFlag))

\* literal-equivalents a word stands for
Equivs(w) == IF IsFill(w) THEN Counter(w) + 1 ELSE 1

RECURSIVE SumEquivs(_, _)
SumEquivs(ws, k) == IF k > Len(ws) THEN 0 ELSE Equivs(ws[k]) + SumEquivs(ws, k + 1)

\* literal-equivalents before word k (from 1) of ws
EquivsBefore(ws, k) == SumEquivs(SubSeq(ws, 1, k - 1), 1)

\* words k and k+1 are fills of the same polarity
SameFills(ws, k) ==
    /\ IsFill(ws[k])
    /\ IsFill(ws[k + 1])
    /\ Polarity(ws[k]) = Polarity(ws[k + 1])

(***************************************************************************)
(* C1: after any sequence of Set calls Get agrees with a plain boolean     *)
(* array updated by the same calls: the sizes are equal, Get(i) is the     *)
(* last value written to i, and false for a position below size that was   *)
(* never written.                                                          *)
(***************************************************************************)
C1_GetAgreesWithArray ==
    /\ size = Len(arr)
    /\ \A i \in 0 .. (size - 1) : Get(B, i) = arr[i + 1]

\* a vector with a fill, a literal and a partial active word, holding a true
\* bit above a false one in each of the three
C1_Witness ==
    /\ \E k \in 1 .. Len(words) : IsFill(words[k]) /\ Polarity(words[k])
    /\ \E k \in 1 .. Len(words) : IsFill(words[k]) /\ ~Polarity(words[k])
    /\ \E k \in 1 .. Len(words) : IsLiteral(words[k])
    /\ offset > 1
    /\ active # Zero
    /\ \E i \in 0 .. (size - 1) : Get(B, i) /\ arr[i + 1]
    /\ \E i \in 0 .. (size - 1) : ~Get(B, i) /\ ~arr[i + 1]

(***************************************************************************)
(* C2: no two adjacent words of `words` are fills of the same polarity,    *)
(* unless the earlier of the two has its counter at fillMax.               *)
(***************************************************************************)
C2_NoAdjacentSameFills ==
    \A k \in 1 .. (Len(words) - 1) :
        SameFills(words, k) => ~hasSpace(words[k])

(***************************************************************************)
(* C3: no literal word stored in `words` is the all-zero or the all-one    *)
(* pattern.                                                                *)
(***************************************************************************)
C3_NoUniformLiteral ==
    \A k \in 1 .. Len(words) :
        IsLiteral(words[k]) => words[k] # zerosLiteral /\ words[k] # onesLiteral

\* updateLiteral has turned a literal into a fill next to a fill of its polarity
\* (flushWord never leaves such a pair while the first has headroom), and a
\* mixed literal is stored as well
C3_Witness ==
    /\ \E k \in 1 .. (Len(words) - 1) : SameFills(words, k) /\ hasSpace(words[k])
    /\ \E k \in 1 .. Len(words) : IsLiteral(words[k])

(***************************************************************************)
(* C4: size = (literal-equivalents of words, 1 per literal and counter + 1 *)
(* per fill) * (bitLength - 1) + offset.                                   *)
(***************************************************************************)
C4_SizeIsEquivsPlusOffset ==
    size = SumEquivs(words, 1) * (bitLength - 1) + offset

\* after a merge of a literal into the fill before it (the last Set applied ++
\* and left the active word alone), with a literal and a partial active word
C4_Witness ==
    /\ incd # {}
    /\ offset > 0
    /\ \E k \in 1 .. Len(words) : IsFill(words[k]) /\ Counter(words[k]) > 0
    /\ \E k \in 1 .. Len(words) : IsLiteral(words[k])
    /\ \E k \in 1 .. (Len(words) - 1) : SameFills(words, k)

(***************************************************************************)
(* The reference evaluation on the plain boolean arrays.                   *)
(***************************************************************************)
\* a[i], false beyond the array
At(a, i) == i < Len(a) /\ a[i + 1]

\* the positions holding true
TruePos(a) == {i \in 0 .. (Len(a) - 1) : a[i + 1]}

\* the elements of a finite set of integers in ascending order
RECURSIVE Ascending(_)
Ascending(S) ==
    IF S = {} THEN <<>>
    ELSE LET m == SetMin(S) IN <<m>> \o Ascending(S \ {m})

Positions == 0 .. (Max(Len(arr), Len(arr2)) - 1)

(***************************************************************************)
(* C5: for two Bitvecs built by Set from boolean arrays A and B, the Count *)
(* of And, Or and Xor of their iterators is the number of positions i with *)
(* A[i] and B[i], A[i] or B[i], A[i] # B[i], whether or not the sizes are  *)
(* equal.                                                                  *)
(***************************************************************************)
C5_CountAgreesWithArrays ==
    /\ res.op = "and" =>
          res.count = Cardinality({i \in Positions : At(arr, i) /\ At(arr2, i)})
    /\ res.op = "or" =>
          res.count = Cardinality({i \in Positions : At(arr, i) \/ At(arr2, i)})
    /\ res.op = "xor" =>
          res.count = Cardinality({i \in Positions : At(arr, i) # At(arr2, i)})

\* Xor counted over two Bitvecs of different sizes, each with a stored word, the
\* longer one true somewhere beyond the end of the shorter
C5_Witness ==
    /\ res.op = "xor"
    /\ size < b2.size
    /\ Len(words) > 0
    /\ Len(b2.words) > 0
    /\ offset > 0
    /\ \E i \in TruePos(arr2) : i >= size
    /\ \E i \in TruePos(arr) : At(arr2, i)
    /\ res.count > 1

(***************************************************************************)
(* C6: Count(Not(b.Iterate())) is the number of positions below size that  *)
(* hold false, size - Count(b.Iterate()); the bits of the last, partial    *)
(* chunk at or beyond its validBitCount are not counted.                   *)
(***************************************************************************)
C6_CountNot ==
    res.op = "not" =>
        /\ res.count = Cardinality({i \in 0 .. (size - 1) : ~arr[i + 1]})
        /\ res.count = size - Count(Iterate(1))

\* Not counted over a Bitvec with stored words and a partial active word that
\* holds a true and a false bit
C6_Witness ==
    /\ res.op = "not"
    /\ Len(words) > 0
    /\ offset > 1
    /\ active # Zero
    /\ \E i \in 0 .. (offset - 1) : i \notin active
    /\ res.count > 0

(***************************************************************************)
(* C7: for a Bitvec built by Set(i, true) on the positions of an ascending *)
(* list L, what is received from Indices(b.Iterate()) is at any time a     *)
(* prefix of L, and all of L once the channel is closed: L in ascending    *)
(* order, nothing twice, nothing left out.                                 *)
(***************************************************************************)
C7_IndicesYieldsList ==
    LET L == Ascending(TruePos(arr))
    IN  /\ Len(recv) <= Len(L)
        /\ recv = SubSeq(L, 1, Len(recv))
        /\ closed => recv = L

\* the channel is closed after three or more positions were received from a
\* Bitvec with a zero fill, a literal and a partial active word
C7_Witness ==
    /\ closed
    /\ Len(recv) >= 3
    /\ offset > 0
    /\ \E k \in 1 .. Len(words) : IsFill(words[k]) /\ ~Polarity(words[k])
    /\ \E k \in 1 .. Len(words) : IsLiteral(words[k])

(***************************************************************************)
(* C8: at width 64, Set(0, true) then Set(1000, true) on a new Bitvec      *)
(* give size 1001, exactly one fill word, a zero fill, the bits 0 and 1000 *)
(* in literal words, Count(Iterate()) = 2 and Indices(Iterate()) = 0, 1000.*)
(***************************************************************************)
\* the two calls of the scenario were made, and no other
ScenarioBuilt == bitLength = WideWidth /\ Len(arr) = 1001 /\ TruePos(arr) = {0, 1000}

\* position id is held in a literal: a literal word of `words`, or the active word
InLiteral(id) ==
    LET i == findWord(B, id).i
    IN  i = Len(words) \/ (i < Len(words) /\ IsLiteral(words[i + 1]))

C8_Scenario ==
    ScenarioBuilt =>
        /\ size = 1001
        /\ Cardinality({k \in 1 .. Len(words) : IsFill(words[k])}) = 1
        /\ \A k \in 1 .. Len(words) : IsFill(words[k]) => ~Polarity(words[k])
        /\ InLiteral(0) /\ Get(B, 0)
        /\ InLiteral(1000) /\ Get(B, 1000)
        /\ \A i \in 1 .. 999 : ~Get(B, i)
        /\ res.op = "iterate" => res.count = 2
        /\ closed => recv = <<0, 1000>>

\* the scenario, counted and enumerated to the end
C8_Witness ==
    /\ ScenarioBuilt
    /\ res.op = "iterate"
    /\ closed
    /\ Len(recv) = 2

(***************************************************************************)
(* C9: a Set of one position strictly inside the run of a fill with        *)
(* counter >= 2 to the opposite value, followed by a Set of the same       *)
(* position back to the fill's polarity, returns `words` to what it was.   *)
(* The step is the first Set; the second is applied to the state reached.  *)
(***************************************************************************)
\* position p lies strictly inside the run of fill k (from 1) of `words`
StrictlyInside(p, k) ==
    LET first == EquivsBefore(words, k) * (bitLength - 1)
        last == first + Equivs(words[k]) * (bitLength - 1) - 1
    IN  first < p /\ p < last

\* this step is Set(p, x) on a position below size
IsSetOf(p, x) ==
    /\ arr' = ArrSet(arr, p, x)
    /\ words' = SetBit(B, p, x).words
    /\ size' = size

C9_FlipRoundTrip ==
    [][\A k \in 1 .. Len(words) : \A p \in 0 .. (size - 1) :
          (/\ IsFill(words[k])
           /\ Counter(words[k]) >= 2
           /\ StrictlyInside(p, k)
           /\ IsSetOf(p, ~Polarity(words[k])))
          => SetBit(B', p, Polarity(words[k])).words = words]_vars

(***************************************************************************)
(* C10: a run counter is never incremented when it equals fillMax: every   *)
(* ++ of flushWord and updateLiteral is applied to a fill with headroom,   *)
(* and leaves the fill flag and the ones flag as they were.                *)
(***************************************************************************)
C10_IncrementHasHeadroom ==
    /\ \A w \in incd :
          /\ IsFill(w)
          /\ WordLess(BitAnd(w, countMask), fillMax)
          /\ HeadBits(Inc(w)) = HeadBits(w)
          /\ Counter(Inc(w)) = Counter(w) + 1
    /\ \A k \in 1 .. Len(words) :
          IsFill(words[k]) => Counter(words[k]) <= ToInt(fillMax)

\* the last Set incremented a counter up to fillMax and then, for want of
\* headroom, stored a new fill with counter 0 behind it
C10_Witness ==
    /\ \E w \in incd : BitAnd(Inc(w), countMask) = fillMax
    /\ \E k \in 1 .. (Len(words) - 1) :
          /\ SameFills(words, k)
          /\ BitAnd(words[k], countMask) = fillMax
          /\ Counter(words[k + 1]) = 0

(***************************************************************************)
(* The chunks an iterator pulled by hand has returned.                     *)
(***************************************************************************)
\* some call before the k-th returned validBitCount 0
ExhaustedBefore(k) == \E m \in 1 .. k - 1 : run.out[m].n = 0

\* C11: for an iterator built from Iterate(), EmptyIterator() and the
\* combinators Not, And, Or, Xor, with no Set applied after it was built:
\* once a call of Next has returned validBitCount 0, every later call
\* returns validBitCount 0 as well.
C11_ZeroCountStays ==
    (run.on /\ ~run.dirty) =>
        \A k \in 1 .. Len(run.out) : ExhaustedBefore(k) => run.out[k].n = 0

\* a combinator of two iterators that returned a non-empty chunk, then
\* validBitCount 0 twice
C11_Witness ==
    /\ run.on
    /\ ~run.dirty
    /\ run.shape.kind \in {"and", "or", "xor"}
    /\ Len(run.out) >= 3
    /\ run.out[1].n > 0
    /\ run.out[Len(run.out) - 1].n = 0
    /\ run.out[Len(run.out)].n = 0

(***************************************************************************)
(* Get at and beyond size.                                                 *)
(***************************************************************************)
\* positions at or beyond size: the rest of the active word, the word after
\* it, and the word after that
BeyondSize == size .. size + 2 * (bitLength - 1)

\* C12: Get(id) with id >= size fails with an out-of-range error; it never
\* returns a boolean for such an id, neither false nor a bit read from the
\* active word.
C12_GetBeyondSizeFails == \A id \in BeyondSize : Get(B, id) \notin BOOLEAN

(***************************************************************************)
(* The goroutine of Indices and its consumer.                              *)
(***************************************************************************)
\* C13: with a consumer that keeps receiving until the channel is closed,
\* the goroutine of Indices eventually closes the channel; it closes it
\* only after the source iterator has returned validBitCount 0 and every
\* set position has been received; and nothing is sent after the close.
C13_ProducerCloses ==
    /\ (prod.pc # "idle") ~> closed
    /\ [](closed => /\ prod.pc = "done"
                    /\ prod.n = 0
                    /\ recv = Ascending(TruePos(arr)))
    /\ [][closed => recv' = recv]_vars

\* the channel is closed after positions of two or more committed words were
\* received from a Bitvec whose active word is empty
C13_Witness ==
    /\ closed
    /\ prod.pc = "done"
    /\ Len(recv) >= 2
    /\ offset = 0
    /\ Len(words) >= 2

\* the position the goroutine's scan has reached: all below it were tested
ScanPoint == IF prod.pc \in {"loop", "send"} THEN prod.id + prod.i ELSE prod.id

\* the set positions the goroutine has computed: those its scan has passed,
\* and the one it is about to send
Computed ==
    {p \in TruePos(arr) : p < ScanPoint}
        \cup (IF prod.pc = "send" THEN {prod.id + prod.i} ELSE {})

Received == {recv[k] : k \in 1 .. Len(recv)}

Undelivered == TruePos(arr) \ Received

\* the consumer has stopped with a set position still undelivered
Abandoned == cons = "stopped" /\ Undelivered # {}

\* C14: with a consumer that stops receiving while a set position is still
\* undelivered, the goroutine of Indices reaches its channel send and stays
\* blocked there: it makes no further step, so it never calls Next again
\* and never closes the channel; and at any time at most one position has
\* been computed but not received.
C14_AbandonedProducerBlocks ==
    /\ Abandoned ~> (prod.pc = "send")
    /\ [][(Abandoned /\ prod.pc = "send") =>
            (prod' = prod /\ closed' = closed /\ recv' = recv)]_vars
    /\ [](Abandoned => ~closed)
    /\ [](prod.pc # "idle" => Cardinality(Computed \ Received) <= 1)

\* the consumer stopped after receiving one position, the goroutine is blocked
\* on the send of the next one, with more set positions behind it
C14_Witness ==
    /\ cons = "stopped"
    /\ prod.pc = "send"
    /\ Len(recv) >= 1
    /\ Cardinality(Undelivered) >= 2
    /\ Computed \ Received = {prod.id + prod.i}

(***************************************************************************)
(* The Set that returns a bool.                                            *)
(***************************************************************************)
\* C15: in the variants whose Set returns a bool, Set(id, x) completes
\* without an index-out-of-range failure and returns true exactly when the
\* bit stored at id after the call differs from the bit stored before it
\* (false for a position at or beyond the old size), also when
\* updateLiteral merges the literal into the preceding fill.
C15_SetReturnsChange ==
    ret.val # "none" =>
        /\ ret.val # "index out of range"
        /\ (ret.val = "true") = ret.changed

(***************************************************************************)
(* The bits of a chunk stream.                                             *)
(***************************************************************************)
\* the valid bits of a chunk, lowest first
ChunkBits(c) == [i \in 1 .. c.n |-> (i - 1) \in c.w]

\* the valid bits of a sequence of chunks, in order
RECURSIVE StreamBits(_)
StreamBits(cs) ==
    IF cs = <<>> THEN <<>> ELSE ChunkBits(Head(cs)) \o StreamBits(Tail(cs))

IsPrefix(s, t) == Len(s) <= Len(t) /\ s = SubSeq(t, 1, Len(s))

\* the last Next call returned validBitCount 0
Ended == run.out # <<>> /\ run.out[Len(run.out)].n = 0

\* some Next call returned a non-zero validBitCount after one that returned 0
Revived == \E k \in 1 .. Len(run.out) : ExhaustedBefore(k) /\ run.out[k].n > 0

\* C16: an iterator from b.Iterate() is invalidated by Set on b between its
\* Next calls, and by nothing else: as long as no Set was applied since
\* Iterate() the chunks it yields are the contents of b at Iterate() time
\* and it stays exhausted once it is.  (That interleavings with a Set break
\* both is C16_Witness.)
C16_OnlySetInvalidates ==
    (run.on /\ ~run.dirty) =>
        /\ IsPrefix(StreamBits(run.out), run.arr0)
        /\ Ended => StreamBits(run.out) = run.arr0
        /\ ~Revived

\* an interleaving of Set and Next after which the iterator has ended, the
\* bits it yielded are neither the contents of b at Iterate() time nor the
\* contents of b now, and it returned a non-zero validBitCount after a 0
C16_Witness ==
    /\ run.on
    /\ run.dirty
    /\ Ended
    /\ StreamBits(run.out) # run.arr0
    /\ StreamBits(run.out) # arr
    /\ Revived

(***************************************************************************)
(* Chunk streams of fresh iterators.                                       *)
(***************************************************************************)
\* the chunks the first k Next calls on itr return
RECURSIVE Pull(_, _)
Pull(itr, k) ==
    IF k = 0 THEN <<>>
    ELSE LET r == Next(itr) IN <<[w |-> r.w, n |-> r.n]>> \o Pull(r.itr, k - 1)

\* C17: for x from b.Iterate() with no Set applied afterwards, Not(Not(x))
\* yields chunk by chunk the same word and the same validBitCount as a
\* second fresh iterator x' over the same Bitvec, and Count(Not(Not(x))) =
\* Count(x').
C17_DoubleNot ==
    (run.on /\ run.shape = Not(Not(Iterate(1)))) =>
        /\ run.out = Pull(Iterate(1), Len(run.out))
        /\ Count(Not(Not(Iterate(1)))) = Count(Iterate(1))

\* Not(Not(x)) was pulled to its end over a Bitvec with a ones fill, a literal
\* with its top bit set and a partial active word
C17_Witness ==
    /\ run.on
    /\ run.shape = Not(Not(Iterate(1)))
    /\ Ended
    /\ offset > 0
    /\ \E k \in 1 .. Len(words) : IsFill(words[k]) /\ Polarity(words[k])
    /\ \E k \in 1 .. Len(words) : IsLiteral(words[k]) /\ (bitLength - 2) \in words[k]

(***************************************************************************)
(* The chunk stream of a Bitvec iterator.                                  *)
(***************************************************************************)
\* a full chunk
FullChunk(w) == [w |-> w, n |-> bitLength - 1]

\* count copies of chunk c
Repeat(c, count) == [k \in 1 .. count |-> c]

\* the chunks the committed words stand for: a fill with counter C is C+1
\* all-zero or all-one chunks, a literal is itself
RECURSIVE Expand(_)
Expand(ws) ==
    IF ws = <<>> THEN <<>>
    ELSE (IF IsFill(Head(ws))
          THEN Repeat(FullChunk(IF Polarity(Head(ws)) THEN onesLiteral ELSE Zero),
                      Counter(Head(ws)) + 1)
          ELSE <<FullChunk(Head(ws))>>) \o Expand(Tail(ws))

\* the chunks before the end of the stream: the committed words, then the
\* active word if it holds bits
Expected ==
    Expand(words) \o (IF offset > 0 THEN <<[w |-> active, n |-> offset]>> ELSE <<>>)

\* C18: with no Set applied after Iterate(), the Next calls on a Bitvec
\* iterator return exactly floor(size/(W-1)) chunks of validBitCount W-1 (a
\* fill with counter C standing for C+1 identical chunks, a literal for
\* itself), then the chunk (active, offset) if offset > 0, then
\* validBitCount 0; bit i of the k-th chunk is Get(k*(W-1)+i) for every
\* position below size.
C18_ChunkStream ==
    (run.on /\ ~run.dirty /\ run.shape = Iterate(1)) =>
        /\ Len(Expand(words)) = size \div (bitLength - 1)
        /\ \A k \in 1 .. Len(run.out) :
              /\ k <= Len(Expected) => run.out[k] = Expected[k]
              /\ k > Len(Expected) => run.out[k].n = 0
              /\ \A i \in 0 .. run.out[k].n - 1 :
                    (i \in run.out[k].w) = Get(B, (k - 1) * (bitLength - 1) + i)

\* a Bitvec iterator was pulled to its end and once more over a ones fill
\* with a counter of 1 or more and a partial active word
C18_Witness ==
    /\ run.on
    /\ ~run.dirty
    /\ run.shape = Iterate(1)
    /\ Ended
    /\ Len(run.out) > Len(Expected) + 1
    /\ offset > 0
    /\ \E k \in 1 .. Len(words) :
          IsFill(words[k]) /\ Polarity(words[k]) /\ Counter(words[k]) >= 1

(***************************************************************************)
(* Exhausted iterators.                                                    *)
(***************************************************************************)
\* C19: an iterator that has become exhausted, a Bitvec iterator or a Not,
\* And, Or, Xor combinator over exhausted children, returns the chunk
\* (word 0, validBitCount 0) on every later Next; no exhausted iterator
\* returns a non-zero word.
C19_ExhaustedReturnsZero ==
    (run.on /\ ~run.dirty) =>
        \A k \in 1 .. Len(run.out) :
            ExhaustedBefore(k) => run.out[k] = [w |-> Zero, n |-> 0]

(***************************************************************************)
(* Or and Xor over operands of different lengths.                          *)
(***************************************************************************)
\* the chunks a fresh iterator returns before its first validBitCount 0
RECURSIVE Drain(_)
Drain(itr) ==
    LET r == Next(itr)
    IN  IF r.n = 0 THEN <<>> ELSE <<[w |-> r.w, n |-> r.n]>> \o Drain(r.itr)

\* C20: for Or(x, y) and Xor(x, y) over two iterators built from Iterate()
\* and the combinators, of different total lengths: the result has as many
\* valid bits as the longer operand, and every result bit at a position at
\* or beyond the length of the shorter operand is the longer operand's bit
\* at that position.
C20_LongerOperandTail ==
    (run.on /\ ~run.dirty /\ run.shape.kind \in {"or", "xor"} /\ Ended) =>
        LET bx == StreamBits(Drain(run.shape.x))
            by == StreamBits(Drain(run.shape.y))
            br == StreamBits(run.out)
            long == IF Len(bx) > Len(by) THEN bx ELSE by
        IN  Len(bx) # Len(by) =>
                /\ Len(br) = Len(long)
                /\ \A p \in Min(Len(bx), Len(by)) + 1 .. Len(long) : br[p] = long[p]

(***************************************************************************)
(* Set of a position below size.                                           *)
(***************************************************************************)
\* the word (from 1) of `words` that holds position p, Len(words)+1 for the
\* active word
WordOf(p) ==
    LET idx == p \div (bitLength - 1)
        inside == {k \in 1 .. Len(words) :
                      /\ EquivsBefore(words, k) <= idx
                      /\ idx < EquivsBefore(words, k) + Equivs(words[k])}
    IN  IF inside = {} THEN Len(words) + 1 ELSE SetMin(inside)

\* C21: Set(id, v) with id < size and v the value Get(id) returns leaves
\* words, active, offset and size unchanged, whether the position lies in a
\* fill, in a literal word or in the active word.
C21_SameValueSetChangesNothing ==
    \A p \in 0 .. (size - 1) :
        \E nb \in {SetBit(B, p, Get(B, p))} :
            /\ nb.words = words
            /\ nb.active = active
            /\ nb.offset = offset
            /\ nb.size = size

\* a Bitvec in which such a Set finds each kind of word: a fill, a literal
\* word and an active word holding a true and a false bit
C21_Witness ==
    /\ \E p \in 0 .. (size - 1) : WordOf(p) <= Len(words) /\ IsFill(words[WordOf(p)])
    /\ \E p \in 0 .. (size - 1) : WordOf(p) <= Len(words) /\ IsLiteral(words[WordOf(p)])
    /\ \E p, q \in 0 .. (size - 1) :
          /\ WordOf(p) = Len(words) + 1
          /\ WordOf(q) = Len(words) + 1
          /\ Get(B, p)
          /\ ~Get(B, q)

\* a fill word of the given polarity and counter
FillWord(pol, c) == BitOr(BitOr(fillFlag, IF pol THEN onesFlag ELSE Zero), FromInt(c))

\* the literal of polarity pol with bit `bit` set to the opposite value
BrokenLiteral(pol, bit) == IF pol THEN BitXor(BitNot(fillFlag), Shl1(bit)) ELSE Shl1(bit)

\* what a Set of the opposite value at position p puts in place of fill k:
\* a fill of t literal-equivalents, the literal, a fill of the rest
SplitOf(k, p) ==
    LET pol == Polarity(words[k])
        c == Counter(words[k])
        t == p \div (bitLength - 1) - EquivsBefore(words, k)
    IN  (IF t > 0 THEN <<FillWord(pol, t - 1)>> ELSE <<>>)
            \o <<BrokenLiteral(pol, p % (bitLength - 1))>>
            \o (IF c > t THEN <<FillWord(pol, c - t - 1)>> ELSE <<>>)

\* C22: Set(id, v) on a position inside a fill of counter C and polarity
\* opposite to v, t literal-equivalents into the fill, replaces that one
\* word, in order, by a same-polarity fill with counter t-1 if t > 0, one
\* literal whose bit id mod (W-1) is v and whose other bits are the
\* polarity, and a same-polarity fill with counter C-t-1 if C > t; the words
\* before and after keep their values and order, size and offset are
\* unchanged.
C22_FillSplit ==
    \A p \in 0 .. (size - 1) :
        LET k == WordOf(p)
        IN  (k <= Len(words) /\ IsFill(words[k])) =>
                \E nb \in {SetBit(B, p, ~Polarity(words[k]))} :
                    /\ nb.words = SubSeq(words, 1, k - 1) \o SplitOf(k, p)
                                     \o SubSeq(words, k + 1, Len(words))
                    /\ nb.size = size
                    /\ nb.offset = offset

\* a fill with counter 2 or more behind another word, with an active word
\* holding bits: a Set in its middle leaves a fill on either side
C22_Witness ==
    /\ offset > 0
    /\ \E k \in 2 .. Len(words) : IsFill(words[k]) /\ Counter(words[k]) >= 2

(***************************************************************************)
(* Set beyond size.                                                        *)
(***************************************************************************)
\* C23: in every reachable state and for every id > size, Set(id, v) gives
\* exactly the words, active, offset and size that appending false
\* id - size times, one bit at a time, and then appending v gives; the
\* resulting size is id + 1; and size never decreases under any Set.
C23_GapIsAppends ==
    /\ [](\A id \in (size + 1) .. MaxId : \A v \in BOOLEAN :
            \E nb \in {SetBit(B, id, v)} : \E ob \in {SetOneByOne(B, id, v)} :
                /\ nb.words = ob.words
                /\ nb.active = ob.active
                /\ nb.offset = ob.offset
                /\ nb.size = ob.size
                /\ nb.size = id + 1)
    /\ [][size' >= size]_vars

\* a Set beyond size has flushed a partial active word as a literal, then
\* two or more all-zero words, the last of them by ++ on the fill, and has
\* appended true
C23_Witness ==
    /\ Len(words) >= 2
    /\ IsLiteral(words[Len(words) - 1])
    /\ IsFill(words[Len(words)])
    /\ ~Polarity(words[Len(words)])
    /\ Counter(words[Len(words)]) >= 1
    /\ incd # {}
    /\ offset > 0
    /\ active = Shl1(offset - 1)

\* C24: in the variant whose findWord corrects for an out-of-bounds id,
\* Get(id) returns false for every id >= size, in every reachable state.
C24_GetBeyondSizeIsFalse == \A id \in BeyondSize : Get(B, id) = FALSE

(***************************************************************************)
(* ZeroIterator.                                                           *)
(***************************************************************************)
\* C25: ZeroIterator(n) yields all-zero chunks whose validBitCounts are W-1
\* for floor(n/(W-1)) chunks, then n mod (W-1) if that is not 0, summing to
\* n, and then validBitCount 0 (so that the loop of Count, which runs until
\* a validBitCount 0, ends and Count returns 0).
C25_ZeroIteratorYieldsN ==
    (run.on /\ run.shape.kind = "zero") =>
        LET full == run.shape.n \div (bitLength - 1)
            rest == run.shape.n % (bitLength - 1)
        IN  \A k \in 1 .. Len(run.out) :
                /\ run.out[k].w = Zero
                /\ run.out[k].n = IF k <= full THEN bitLength - 1
                                  ELSE IF k = full + 1 THEN rest
                                  ELSE 0

(***************************************************************************)
(* The active word.                                                        *)
(***************************************************************************)
\* C26: in every state reachable by Set calls, 0 <= offset < W-1 and the
\* active word has no bit set at a position >= offset (its top bit is 0),
\* so every chunk word a Bitvec iterator returns has its top bit clear and
\* the final partial chunk carries no set bit at or beyond its
\* validBitCount.
C26_ActiveBelowOffset ==
    /\ 0 <= offset
    /\ offset < bitLength - 1
    /\ \A bit \in active : bit < offset
    /\ \E cs \in {Drain(Iterate(1))} :
          \A k \in 1 .. Len(cs) :
              /\ (bitLength - 1) \notin cs[k].w
              /\ \A bit \in cs[k].w : bit < cs[k].n

\* a Bitvec whose active word is one bit short of full, all its bits set,
\* behind a ones fill and a literal
C26_Witness ==
    /\ offset = bitLength - 2
    /\ active = Shr(BitNot(Zero), bitLength - offset)
    /\ \E k \in 1 .. Len(words) : IsFill(words[k]) /\ Polarity(words[k])
    /\ \E k \in 1 .. Len(words) : IsLiteral(words[k])

==========================================================================
